---- MODULE Spec2Model ----
(***************************************************************************)
(* Model of src/transifex/yaml_file.rs: the transifex.yaml data model, its *)
(* conversion to a .tx/config structure (TransifexYaml::to_tx_config), the *)
(* file-name pattern engine (create_filter_pattern), the discovery of      *)
(* translated files (Filter::match_target_files) and the loader            *)
(* (try_laod_transifex_yaml_file).                                         *)
(*                                                                         *)
(* Every operation is a function of its arguments and of the file system,  *)
(* so each one is an operator, and each specification below draws the      *)
(* arguments of one operation from bounded sets (Init) and applies it      *)
(* (its single action).  pc is the position of the caller ("call" before   *)
(* the operation, "done" after), args its arguments and ret its result.    *)
(***************************************************************************)
EXTENDS Integers, Sequences, FiniteSets, TLC

VARIABLES pc, args, ret

vars == <<pc, args, ret>>

\* The value of ret before the operation has run.
NoRet == [kind |-> "none"]

\* Option::None.
None == [kind |-> "None"]

Some(v) == [kind |-> "Some", value |-> v]

\* All sequences over S of length at most n.
SeqsUpTo(S, n) == UNION {[1..k -> S] : k \in 0..n}

Min(S) == CHOOSE x \in S : \A y \in S : x <= y

(***************************************************************************)
(* Part 1.  TransifexYaml::to_tx_config                                    *)
(***************************************************************************)

\* Bounds of the inputs of to_tx_config.
MaxFilters == 2

MaxEntries == 2

\* The fixed resource_full_slug of a filter no lookup entry resolves.
UnknownSlug == "o:unknown-org:p:unknown-proj:r:unknown-res"

TransifexHost == "https://www.transifex.com"

\* TxConfigSectionResource::default(): every String field empty.
TxConfigSectionResourceDefault ==
    [source_file |-> "", source_lang |-> "", type_attr |-> "",
     file_filter |-> "", resource_full_slug |-> ""]

\* TxConfigSectionMain::default(): host, and "rest" standing for every other
\* field of the main section at its default.
TxConfigSectionMainDefault == [host |-> "", rest |-> "default"]

\* struct Filter: the rules the model draws filters from.  The second differs
\* from the first in its rule kind only, the last has no placeholder.
FilterPool ==
    { [type_attr |-> "file", source |-> "app/foo.ts", format |-> "QT",
       source_lang |-> "en_US", target_pattern |-> "app/foo_<lang>.ts"],
      [type_attr |-> "dir", source |-> "app/foo.ts", format |-> "QT",
       source_lang |-> "en_US", target_pattern |-> "app/foo_<lang>.ts"],
      [type_attr |-> "file", source |-> "app/bar.po", format |-> "PO",
       source_lang |-> "en", target_pattern |-> "i18n/<lang>/bar.po"],
      [type_attr |-> "file", source |-> "app/foo.ts", format |-> "PO",
       source_lang |-> "en", target_pattern |-> "app/foo.ts"] }

\* struct Settings.
SettingsPool ==
    { [branch_template |-> "transifex_update_<br_unique_id>"],
      [branch_template |-> "tx_<br_unique_id>"] }

Repositories == {"org/repo", "org/other"}

Branches == {"master", "dev"}

\* struct TxResourceLookupEntry: an entry on branch master for each of two
\* repositories and two resources, a second entry of another slug for
\* app/foo.ts of org/repo, and a third one on branch dev.
LookupEntryPool ==
    [repository : Repositories, branch : {"master"},
     resource : {"app/foo.ts", "app/bar.po"},
     transifex_resource_id : {"o:x:p:y:r:z"}]
    \cup
    { [repository |-> "org/repo", branch |-> "master", resource |-> "app/foo.ts",
       transifex_resource_id |-> "o:x:p:y:r:w"],
      [repository |-> "org/repo", branch |-> "dev", resource |-> "app/foo.ts",
       transifex_resource_id |-> "o:x:p:y:r:dev"] }

\* struct TransifexYaml.
TransifexYamls ==
    [filters : SeqsUpTo(FilterPool, MaxFilters), settings : SettingsPool]

\* The closure of lookup_table.iter().find(..): both fields by equality.
EntryMatches(entry, github_repository, source) ==
    entry.repository = github_repository /\ entry.resource = source

\* Mutant: the last matching entry instead of the first (rfind for find).
FindLookupEntryLast(lookup_table, github_repository, source) ==
    LET hits == {i \in DOMAIN lookup_table :
                    EntryMatches(lookup_table[i], github_repository, source)}
    IN  IF hits = {} THEN None
        ELSE Some(lookup_table[CHOOSE i \in hits : \A j \in hits : j <= i])

\* Mutant: the entry must also be on branch master.
FindLookupEntryOnMaster(lookup_table, github_repository, source) ==
    LET hits == {i \in DOMAIN lookup_table :
                    /\ EntryMatches(lookup_table[i], github_repository, source)
                    /\ lookup_table[i].branch = "master"}
    IN  IF hits = {} THEN None ELSE Some(lookup_table[Min(hits)])

\* lookup_table.iter().find(..): the first entry, in table order, that matches.
FindLookupEntry(lookup_table, github_repository, source) ==
    LET hits == {i \in DOMAIN lookup_table :
                    EntryMatches(lookup_table[i], github_repository, source)}
    IN  IF hits = {} THEN None ELSE Some(lookup_table[Min(hits)])

\* Mutant: source_file and file_filter take each other's value.
ResourceSectionSwapped(filter, github_repository, lookup_table) ==
    LET found == FindLookupEntry(lookup_table, github_repository, filter.source)
    IN  [TxConfigSectionResourceDefault EXCEPT
            !.source_file = filter.target_pattern,
            !.source_lang = filter.source_lang,
            !.type_attr = filter.format,
            !.file_filter = filter.source,
            !.resource_full_slug =
                IF found.kind = "Some" THEN found.value.transifex_resource_id
                ELSE UnknownSlug]

\* The body of the loop of to_tx_config: the section built for one filter.
ResourceSection(filter, github_repository, lookup_table) ==
    LET found == FindLookupEntry(lookup_table, github_repository, filter.source)
    IN  [TxConfigSectionResourceDefault EXCEPT
            !.source_file = filter.source,
            !.source_lang = filter.source_lang,
            !.type_attr = filter.format,
            !.file_filter = filter.target_pattern,
            !.resource_full_slug =
                IF found.kind = "Some" THEN found.value.transifex_resource_id
                ELSE UnknownSlug]

RECURSIVE ResourceSectionsResolvedOnly(_, _, _)
\* Mutant: a filter whose slug does not resolve is left out.
ResourceSectionsResolvedOnly(filters, github_repository, lookup_table) ==
    IF filters = <<>> THEN <<>>
    ELSE LET section == ResourceSection(Head(filters), github_repository, lookup_table)
             rest == ResourceSectionsResolvedOnly(Tail(filters), github_repository,
                                                  lookup_table)
         IN  IF section.resource_full_slug = UnknownSlug THEN rest
             ELSE <<section>> \o rest

RECURSIVE ResourceSections(_, _, _)
\* The loop of to_tx_config: one section pushed per filter, in order.
ResourceSections(filters, github_repository, lookup_table) ==
    IF filters = <<>> THEN <<>>
    ELSE <<ResourceSection(Head(filters), github_repository, lookup_table)>>
         \o ResourceSections(Tail(filters), github_repository, lookup_table)

\* TransifexYaml::to_tx_config.  It has no failing path: the result is
\* always a TxConfig.
to_tx_config(self, github_repository, lookup_table) ==
    [main_section |-> [TxConfigSectionMainDefault EXCEPT !.host = TransifexHost],
     resource_sections |->
        ResourceSections(self.filters, github_repository, lookup_table)]

\* The arguments of one call of to_tx_config.
TxArgs ==
    [self : TransifexYamls, github_repository : Repositories,
     lookup_table : SeqsUpTo(LookupEntryPool, MaxEntries)]

Init == pc = "call" /\ args \in TxArgs /\ ret = NoRet

ToTxConfig ==
    /\ pc = "call"
    /\ pc' = "done"
    /\ ret' = to_tx_config(args.self, args.github_repository, args.lookup_table)
    /\ UNCHANGED args

Next == ToTxConfig

Spec == Init /\ [][Next]_vars

(***************************************************************************)
(* Claims about to_tx_config, checked under Spec.                          *)
(***************************************************************************)

\* Whether a lookup entry has the call's repository and the filter's source.
SameKey(entry, filter) ==
    entry.repository = args.github_repository /\ entry.resource = filter.source

\* C1: every resource section's resource_full_slug is the
\* transifex_resource_id of the lowest-indexed lookup entry whose repository
\* is the given repository and whose resource is the filter's source, and the
\* sentinel when no entry has both.
C1_FirstMatchOrSentinel ==
    pc = "done" =>
        \A i \in DOMAIN args.self.filters \cap DOMAIN ret.resource_sections :
            LET filter == args.self.filters[i]
                slug == ret.resource_sections[i].resource_full_slug
                table == args.lookup_table
            IN  \/ \E k \in DOMAIN table :
                      /\ SameKey(table[k], filter)
                      /\ \A j \in 1..(k - 1) : ~SameKey(table[j], filter)
                      /\ slug = table[k].transifex_resource_id
                \/ /\ \A k \in DOMAIN table : ~SameKey(table[k], filter)
                   /\ slug = "o:unknown-org:p:unknown-proj:r:unknown-res"

\* Two entries of the table match a filter, with different slugs, and the
\* section carries the slug of the earlier one.
C1_Witness ==
    /\ pc = "done"
    /\ \E i \in DOMAIN args.self.filters :
          /\ Len(args.lookup_table) = 2
          /\ SameKey(args.lookup_table[1], args.self.filters[i])
          /\ SameKey(args.lookup_table[2], args.self.filters[i])
          /\ args.lookup_table[1].transifex_resource_id
                # args.lookup_table[2].transifex_resource_id
          /\ ret.resource_sections[i].resource_full_slug
                = args.lookup_table[1].transifex_resource_id

\* C2: the resource sections are as many as the filters, and the i-th section
\* is the one of the i-th filter (its source file and its target template),
\* resolved or not.
C2_OrderPreserving ==
    pc = "done" =>
        /\ Len(ret.resource_sections) = Len(args.self.filters)
        /\ \A i \in DOMAIN ret.resource_sections :
              /\ i \in DOMAIN args.self.filters
              /\ ret.resource_sections[i].source_file = args.self.filters[i].source
              /\ ret.resource_sections[i].file_filter
                    = args.self.filters[i].target_pattern

\* Two filters of different sources, the first unresolved and the second
\* resolved, give two sections in that order.
C2_Witness ==
    /\ pc = "done"
    /\ Len(args.self.filters) = 2
    /\ args.self.filters[1].source # args.self.filters[2].source
    /\ Len(ret.resource_sections) = 2
    /\ ret.resource_sections[1].resource_full_slug = UnknownSlug
    /\ ret.resource_sections[2].resource_full_slug # UnknownSlug

\* C3: each section's source_file, source_lang, type and file_filter are the
\* filter's source, source language, format and target template, unchanged;
\* the file_filter is the template as written, whatever the lookup gives.
C3_FieldsVerbatim ==
    pc = "done" =>
        \A i \in DOMAIN args.self.filters \cap DOMAIN ret.resource_sections :
            LET filter == args.self.filters[i]
                section == ret.resource_sections[i]
            IN  /\ section.source_file = filter.source
                /\ section.source_lang = filter.source_lang
                /\ section.type_attr = filter.format
                /\ section.file_filter = filter.target_pattern

\* A section whose slug resolved and whose file_filter is the template with
\* its placeholder still in it.
C3_Witness ==
    /\ pc = "done"
    /\ \E i \in DOMAIN ret.resource_sections :
          /\ args.self.filters[i].target_pattern = "app/foo_<lang>.ts"
          /\ ret.resource_sections[i].file_filter = "app/foo_<lang>.ts"
          /\ ret.resource_sections[i].type_attr = "QT"
          /\ ret.resource_sections[i].resource_full_slug = "o:x:p:y:r:z"

\* self with the rule kind of its i-th filter replaced by kinds[i].
WithFilterTypes(self, kinds) ==
    [self EXCEPT !.filters =
        [i \in DOMAIN self.filters |->
            [self.filters[i] EXCEPT !.type_attr = kinds[i]]]]

\* The table with the branch of its k-th entry replaced by branches[k].
WithBranches(lookup_table, branches) ==
    [k \in DOMAIN lookup_table |->
        [lookup_table[k] EXCEPT !.branch = branches[k]]]

\* C9: to_tx_config always returns a configuration; its main section is the
\* default one with host "https://www.transifex.com"; and a call that differs
\* only in settings.pr_branch_name, in the filters' rule kinds or in the
\* entries' branches returns the same configuration.
C9_TotalAndIndependent ==
    pc = "done" =>
        /\ DOMAIN ret = {"main_section", "resource_sections"}
        /\ ret.main_section = [host |-> "https://www.transifex.com", rest |-> "default"]
        /\ \A settings \in SettingsPool :
              to_tx_config([args.self EXCEPT !.settings = settings],
                           args.github_repository, args.lookup_table) = ret
        /\ \A kinds \in [DOMAIN args.self.filters -> {"file", "dir"}] :
              to_tx_config(WithFilterTypes(args.self, kinds),
                           args.github_repository, args.lookup_table) = ret
        /\ \A branches \in [DOMAIN args.lookup_table -> Branches] :
              to_tx_config(args.self, args.github_repository,
                           WithBranches(args.lookup_table, branches)) = ret

\* A filter of kind dir resolved by an entry on branch dev.
C9_Witness ==
    /\ pc = "done"
    /\ \E i \in DOMAIN args.self.filters :
          /\ args.self.filters[i].type_attr = "dir"
          /\ ret.resource_sections[i].resource_full_slug = "o:x:p:y:r:dev"
    /\ ret.main_section.host = "https://www.transifex.com"

(***************************************************************************)
(* Part 2.  create_filter_pattern, and the regex crate as far as the       *)
(* patterns it builds use it.  A string is a sequence of one-character     *)
(* strings.                                                                *)
(***************************************************************************)

\* Bounds of the inputs of create_filter_pattern and of Regex::captures.
MaxPieces == 3

\* Bounds of the codes put in place of the placeholder: the longest code of
\* letters and underscores, and the longest code of any of the characters.
MaxCodeLen == 7

MaxMixedCodeLen == 5

\* The placeholder "<lang>".
LangToken == <<"<", "l", "a", "n", "g", ">">>

LowerLetters ==
    <<"a", "b", "c", "d", "e", "f", "g", "h", "i", "j", "k", "l", "m",
      "n", "o", "p", "q", "r", "s", "t", "u", "v", "w", "x", "y", "z">>

UpperLetters ==
    <<"A", "B", "C", "D", "E", "F", "G", "H", "I", "J", "K", "L", "M",
      "N", "O", "P", "Q", "R", "S", "T", "U", "V", "W", "X", "Y", "Z">>

DigitChars == <<"0", "1", "2", "3", "4", "5", "6", "7", "8", "9">>

Range(f) == {f[i] : i \in DOMAIN f}

IndexIn(f, c) == CHOOSE i \in DOMAIN f : f[i] = c

\* The characters regex::escape puts a backslash before
\* (regex_syntax::is_meta_character).
MetaChars ==
    {"\\", ".", "+", "*", "?", "(", ")", "|", "[", "]", "{", "}", "^", "$",
     "#", "&", "-", "~"}

\* Whether sep is at position i of s.
OccursAt(s, sep, i) ==
    i + Len(sep) - 1 <= Len(s) /\ SubSeq(s, i, i + Len(sep) - 1) = sep

RECURSIVE split(_, _)
\* str::split(sep).collect(): the pieces between the occurrences of sep,
\* found from the left and not overlapping.
split(s, sep) ==
    LET at == {i \in 1..Len(s) : OccursAt(s, sep, i)}
    IN  IF at = {} THEN <<s>>
        ELSE <<SubSeq(s, 1, Min(at) - 1)>>
             \o split(SubSeq(s, Min(at) + Len(sep), Len(s)), sep)

\* Mutant: no escaping, the literal text goes into the pattern as it is.
escape_nothing(text) == text

RECURSIVE escape(_)
\* regex::escape: a backslash before every meta character.
escape(text) ==
    IF text = <<>> THEN <<>>
    ELSE (IF Head(text) \in MetaChars THEN <<"\\", Head(text)>> ELSE <<Head(text)>>)
         \o escape(Tail(text))

\* "([a-z_A-Z]{2,6})" of the format string.
CodeGroupText ==
    <<"(", "[", "a", "-", "z", "_", "A", "-", "Z", "]", "{", "2", ",", "6", "}", ")">>

\* format!(r#"^{}([a-z_A-Z]{{2,6}}){}$"#, a, b).
FormatPattern(a, b) == <<"^">> \o a \o CodeGroupText \o b \o <<"$">>

\* A failed parse.
ParseError == [ok |-> FALSE, atoms |-> <<>>]

\* One element of a parsed pattern: t is "bol", "eol", "open", "close" (of
\* group g), "lit" or "class" (one of chars), or "any"; min..max repetitions.
Atom(t, chars, g) == [t |-> t, chars |-> chars, g |-> g, min |-> 1, max |-> 1]

\* The characters lo-hi of a class.
CharRange(lo, hi) ==
    IF lo \in Range(LowerLetters) /\ hi \in Range(LowerLetters)
    THEN {LowerLetters[i] : i \in IndexIn(LowerLetters, lo)..IndexIn(LowerLetters, hi)}
    ELSE IF lo \in Range(UpperLetters) /\ hi \in Range(UpperLetters)
    THEN {UpperLetters[i] : i \in IndexIn(UpperLetters, lo)..IndexIn(UpperLetters, hi)}
    ELSE IF lo \in Range(DigitChars) /\ hi \in Range(DigitChars)
    THEN {DigitChars[i] : i \in IndexIn(DigitChars, lo)..IndexIn(DigitChars, hi)}
    ELSE {}

RECURSIVE ClassChars(_)
\* The characters of the items of a bracketed class: x-y is a range, any
\* other character is itself.
ClassChars(items) ==
    IF items = <<>> THEN {}
    ELSE IF Len(items) >= 3 /\ items[2] = "-"
    THEN CharRange(items[1], items[3]) \cup ClassChars(SubSeq(items, 4, Len(items)))
    ELSE {Head(items)} \cup ClassChars(Tail(items))

RECURSIVE DecimalValue(_)
\* The number a string of digits writes; -1 when it is not one.
DecimalValue(digits) ==
    IF digits = <<>> THEN -1
    ELSE IF digits[Len(digits)] \notin Range(DigitChars) THEN -1
    ELSE LET last == IndexIn(DigitChars, digits[Len(digits)]) - 1
             front == SubSeq(digits, 1, Len(digits) - 1)
         IN  IF front = <<>> THEN last
             ELSE IF DecimalValue(front) < 0 THEN -1
             ELSE DecimalValue(front) * 10 + last

\* The first position from i on where s holds c; 0 when there is none.
FirstAt(s, c, i) ==
    LET at == {j \in i..Len(s) : s[j] = c}
    IN  IF at = {} THEN 0 ELSE Min(at)

\* A counted repetition "{m,n}" at position i of text: its bounds and the
\* position after it; ok is FALSE when the text at i is not one.
Repetition(text, i) ==
    LET close == FirstAt(text, "}", i)
        comma == FirstAt(text, ",", i)
    IN  IF i > Len(text) \/ text[i] # "{" \/ close = 0 \/ comma = 0 \/ comma > close
        THEN [ok |-> FALSE, min |-> 1, max |-> 1, next |-> i]
        ELSE LET lo == DecimalValue(SubSeq(text, i + 1, comma - 1))
                 hi == DecimalValue(SubSeq(text, comma + 1, close - 1))
             IN  IF lo < 0 \/ hi < lo
                 THEN [ok |-> FALSE, min |-> 1, max |-> 1, next |-> i]
                 ELSE [ok |-> TRUE, min |-> lo, max |-> hi, next |-> close + 1]

RECURSIVE ParseFrom(_, _, _, _)
\* The parser of Regex::new from position i of text, inside the groups of
\* stack, with groups of them opened so far.  It covers what the patterns of
\* create_filter_pattern are made of: anchors, escaped characters, ".",
\* capture groups, bracketed classes, counted repetition and plain
\* characters; any other operator is a parse error here.
ParseFrom(text, i, stack, groups) ==
    IF i > Len(text)
    THEN (IF stack = <<>> THEN [ok |-> TRUE, atoms |-> <<>>] ELSE ParseError)
    ELSE
    LET c == text[i]
        \* an atom that takes characters, followed by its repetition if any
        Counted(atom, next) ==
            LET rep == Repetition(text, next)
                rest == ParseFrom(text, rep.next, stack, groups)
            IN  IF next <= Len(text) /\ text[next] = "{" /\ ~rep.ok THEN ParseError
                ELSE IF ~rest.ok THEN ParseError
                ELSE [ok |-> TRUE,
                      atoms |-> <<[atom EXCEPT !.min = rep.min, !.max = rep.max]>>
                                \o rest.atoms]
        Plain(atom, next, newStack, newGroups) ==
            LET rest == ParseFrom(text, next, newStack, newGroups)
            IN  IF ~rest.ok THEN ParseError
                ELSE [ok |-> TRUE, atoms |-> <<atom>> \o rest.atoms]
    IN  CASE c = "\\" ->
                IF i = Len(text) THEN ParseError
                ELSE Counted(Atom("lit", {text[i + 1]}, 0), i + 2)
          [] c = "." -> Counted(Atom("any", {}, 0), i + 1)
          [] c = "^" -> Plain(Atom("bol", {}, 0), i + 1, stack, groups)
          [] c = "$" -> Plain(Atom("eol", {}, 0), i + 1, stack, groups)
          [] c = "(" ->
                Plain(Atom("open", {}, groups + 1), i + 1,
                      <<groups + 1>> \o stack, groups + 1)
          [] c = ")" ->
                IF stack = <<>> THEN ParseError
                ELSE Plain(Atom("close", {}, Head(stack)), i + 1, Tail(stack), groups)
          [] c = "[" ->
                LET close == FirstAt(text, "]", i + 2)
                IN  IF close = 0 THEN ParseError
                    ELSE Counted(Atom("class",
                                      ClassChars(SubSeq(text, i + 1, close - 1)), 0),
                                 close + 1)
          [] c \in {"]", "{", "}", "*", "+", "?", "|"} -> ParseError
          [] OTHER -> Counted(Atom("lit", {c}, 0), i + 1)

\* Regex::new(text).ok(): the parsed pattern, or None.
RegexNew(text) ==
    LET parsed == ParseFrom(text, 1, <<>>, 0)
    IN  IF parsed.ok THEN Some(parsed.atoms) ELSE None

\* Mutant: any template with at least one placeholder compiles, from its
\* first two parts.
create_filter_pattern_lenient(pattern) ==
    LET parts == split(pattern, LangToken)
    IN  IF Len(parts) < 2 THEN None
        ELSE RegexNew(FormatPattern(escape(parts[1]), escape(parts[2])))

\* create_filter_pattern: None unless the template splits in exactly two
\* parts at "<lang>"; else the regex of the escaped parts around the group.
create_filter_pattern(pattern) ==
    LET parts == split(pattern, LangToken)
    IN  IF Len(parts) # 2 THEN None
        ELSE RegexNew(FormatPattern(escape(parts[1]), escape(parts[2])))

\* Whether character c is one the atom takes.
Takes(atom, c) ==
    CASE atom.t = "any" -> c # "\n"
      [] OTHER -> c \in atom.chars

RECURSIVE MatchFrom(_, _, _, _, _)
\* The match of atoms k.. against subject from position pos, the longest
\* repetition first; cap is the span of group 1 so far.
MatchFrom(atoms, k, subject, pos, cap) ==
    IF k > Len(atoms) THEN [ok |-> TRUE, cap |-> cap]
    ELSE
    LET atom == atoms[k]
        Fail == [ok |-> FALSE, cap |-> cap]
    IN  CASE atom.t = "bol" ->
                IF pos = 1 THEN MatchFrom(atoms, k + 1, subject, pos, cap) ELSE Fail
          [] atom.t = "eol" ->
                IF pos = Len(subject) + 1
                THEN MatchFrom(atoms, k + 1, subject, pos, cap) ELSE Fail
          [] atom.t = "open" ->
                MatchFrom(atoms, k + 1, subject, pos,
                          IF atom.g = 1 THEN [cap EXCEPT !.from = pos] ELSE cap)
          [] atom.t = "close" ->
                MatchFrom(atoms, k + 1, subject, pos,
                          IF atom.g = 1 THEN [cap EXCEPT !.to = pos, !.set = TRUE]
                          ELSE cap)
          [] OTHER ->
                LET runs == {n \in atom.min..atom.max :
                                /\ pos + n - 1 <= Len(subject)
                                /\ \A j \in pos..(pos + n - 1) : Takes(atom, subject[j])}
                    after == [n \in runs |->
                                MatchFrom(atoms, k + 1, subject, pos + n, cap)]
                    good == {n \in runs : after[n].ok}
                IN  IF good = {} THEN Fail
                    ELSE after[CHOOSE n \in good : \A m \in good : m <= n]

\* Regex::captures(subject) and then get(1): the text of group 1 of the
\* leftmost match, None when nothing matches or group 1 took no part.
captures_get_1(atoms, subject) ==
    LET NoCap == [from |-> 0, to |-> 0, set |-> FALSE]
        tries == [s \in 1..(Len(subject) + 1) |->
                    MatchFrom(atoms, 1, subject, s, NoCap)]
        starts == {s \in DOMAIN tries : tries[s].ok}
    IN  IF starts = {} THEN None
        ELSE LET m == tries[Min(starts)]
             IN  IF m.cap.set THEN Some(SubSeq(subject, m.cap.from, m.cap.to - 1))
                 ELSE None

RECURSIVE Flatten(_)
\* The concatenation of a sequence of strings.
Flatten(pieces) ==
    IF pieces = <<>> THEN <<>> ELSE Head(pieces) \o Flatten(Tail(pieces))

\* What the templates of the model are made of: the placeholder, its two
\* halves, and literal text with and without meta characters.
TemplatePieces ==
    { LangToken, <<"<", "l", "a">>, <<"n", "g", ">">>, <<"f", "_">>,
      <<".", "t">>, <<"(">> }

Templates == {Flatten(pieces) : pieces \in SeqsUpTo(TemplatePieces, MaxPieces)}

InitCompile == pc = "call" /\ args \in [pattern : Templates] /\ ret = NoRet

CreateFilterPattern ==
    /\ pc = "call"
    /\ pc' = "done"
    /\ ret' = create_filter_pattern(args.pattern)
    /\ UNCHANGED args

NextCompile == CreateFilterPattern

SpecCompile == InitCompile /\ [][NextCompile]_vars

\* The number of places where the placeholder stands in s.
Occurrences(s) == Cardinality({i \in 1..Len(s) : OccursAt(s, LangToken, i)})

\* C4: create_filter_pattern returns a pattern exactly when "<lang>" stands
\* once in the template.
C4_CompilesIffOnePlaceholder ==
    pc = "done" => (ret.kind = "Some" <=> Occurrences(args.pattern) = 1)

\* A template with one placeholder, made of two halves, between literal
\* parts with meta characters, has compiled.
C4_Witness ==
    /\ pc = "done"
    /\ args = [pattern |-> <<"(", "<", "l", "a", "n", "g", ">", ".", "t">>]
    /\ ret.kind = "Some"

(***************************************************************************)
(* Matching: a compiled pattern applied to one subject string, as          *)
(* tests::test_pathbuf and the loop of match_target_files do.              *)
(***************************************************************************)

\* Bound of the codes of the subjects that also differ in their literal text.
MaxEditedCodeLen == 2

\* Templates with one placeholder: literal text with meta characters on both
\* sides, on neither side, and before it only.
MatchTemplates ==
    { <<"f", "_", "<", "l", "a", "n", "g", ">", ".", "t">>,
      LangToken,
      <<"(", ".", "<", "l", "a", "n", "g", ">">> }

\* The characters of the codes: a lower-case letter, an upper-case letter,
\* the underscore and a digit.
CodeChars == {"e", "N", "_", "1"}

\* The codes: every string of code characters up to MaxMixedCodeLen, and
\* every string of "e" and "_" up to MaxCodeLen.
Codes ==
    SeqsUpTo(CodeChars, MaxMixedCodeLen) \cup SeqsUpTo({"e", "_"}, MaxCodeLen)

\* The text before and after the placeholder of a template that has one.
PrefixOf(template) ==
    SubSeq(template, 1, Min({i \in 1..Len(template) : OccursAt(template, LangToken, i)}) - 1)

SuffixOf(template) ==
    SubSeq(template,
           Min({i \in 1..Len(template) : OccursAt(template, LangToken, i)}) + Len(LangToken),
           Len(template))

\* The file name a template stands for with code in place of the placeholder.
Substitute(template, code) == PrefixOf(template) \o code \o SuffixOf(template)

\* The ways a subject differs from the substituted template: not at all
\* (0 at 0), a "-" put before it or after it, or a "-" in place of the
\* at-th character of its literal prefix or suffix.
EditsOf(template) ==
    {[how |-> "none", at |-> 0], [how |-> "before", at |-> 0], [how |-> "after", at |-> 0]}
    \cup [how : {"prefix"}, at : DOMAIN PrefixOf(template)]
    \cup [how : {"suffix"}, at : DOMAIN SuffixOf(template)]

Edited(template, code, edit) ==
    CASE edit.how = "none" -> Substitute(template, code)
      [] edit.how = "before" -> <<"-">> \o Substitute(template, code)
      [] edit.how = "after" -> Substitute(template, code) \o <<"-">>
      [] edit.how = "prefix" ->
            [PrefixOf(template) EXCEPT ![edit.at] = "-"] \o code \o SuffixOf(template)
      [] edit.how = "suffix" ->
            PrefixOf(template) \o code \o [SuffixOf(template) EXCEPT ![edit.at] = "-"]

\* The arguments of one match: the template, and the subject made of it.
MatchArgs ==
    { [pattern |-> t, code |-> c, edit |-> e, subject |-> Edited(t, c, e)] :
        <<t, c, e>> \in
            (MatchTemplates \X Codes \X {[how |-> "none", at |-> 0]})
            \cup
            {x \in MatchTemplates \X SeqsUpTo(CodeChars, MaxEditedCodeLen)
                    \X UNION {EditsOf(t2) : t2 \in MatchTemplates} :
                x[3] \in EditsOf(x[1])} }

InitMatch == pc = "call" /\ args \in MatchArgs /\ ret = NoRet

\* create_filter_pattern(..).unwrap() and then captures(..).get(1).
Captures ==
    /\ pc = "call"
    /\ pc' = "done"
    /\ ret' = LET regex == create_filter_pattern(args.pattern)
              IN  IF regex.kind = "None" THEN [kind |-> "NoPattern"]
                  ELSE captures_get_1(regex.value, args.subject)
    /\ UNCHANGED args

NextMatch == Captures

SpecMatch == InitMatch /\ [][NextMatch]_vars

IsLetter(c) == c \in Range(LowerLetters) \cup Range(UpperLetters)

\* The number of letters of a code.
LetterCount(code) == Cardinality({i \in DOMAIN code : IsLetter(code[i])})

\* A code of 2 to 6 letters: letters only, or two parts of at least two
\* letters each joined by one underscore.
LetterCode(code) ==
    /\ LetterCount(code) \in 2..6
    /\ \/ \A i \in DOMAIN code : IsLetter(code[i])
       \/ \E u \in 3..(Len(code) - 2) :
             /\ code[u] = "_"
             /\ \A i \in DOMAIN code \ {u} : IsLetter(code[i])

\* C5 as stated: with a code of 2 to 6 letters, in one part or in two parts
\* joined by an underscore, in place of the placeholder the pattern matches
\* and group 1 is the code; with a one-part code of fewer than 2 or more than
\* 6 letters, or a code with a digit or symbol, it does not match; nor does it
\* match when the text around the code is not the template's literal text.
C5_AsStated ==
    pc = "done" =>
        /\ (args.edit.how = "none" /\ LetterCode(args.code))
              => ret = Some(args.code)
        /\ (/\ args.edit.how = "none"
            /\ \A i \in DOMAIN args.code : IsLetter(args.code[i])
            /\ Len(args.code) \notin 2..6)
              => ret = None
        /\ (/\ args.edit.how = "none"
            /\ \E i \in DOMAIN args.code :
                  ~IsLetter(args.code[i]) /\ args.code[i] # "_")
              => ret = None
        /\ (args.edit.how # "none") => ret = None

\* C5 as the code has it: the pattern matches, with the code as group 1,
\* exactly when the subject is the template with a code of 2 to 6 characters,
\* each a letter or an underscore, in place of the placeholder; it matches
\* nothing else: no shorter or longer code, no code with another character,
\* no subject with other text around the code or with text before or after.
C5_TwoToSixLettersOrUnderscores ==
    pc = "done" =>
        IF /\ args.edit.how = "none"
           /\ Len(args.code) \in 2..6
           /\ \A i \in DOMAIN args.code : IsLetter(args.code[i]) \/ args.code[i] = "_"
        THEN ret = Some(args.code)
        ELSE ret = None

\* The template f_<lang>.t matched f_ee_NN.t and group 1 is ee_NN.
C5_Witness ==
    /\ pc = "done"
    /\ args.pattern = <<"f", "_", "<", "l", "a", "n", "g", ">", ".", "t">>
    /\ args.subject = <<"f", "_", "e", "e", "_", "N", "N", ".", "t">>
    /\ ret = Some(<<"e", "e", "_", "N", "N">>)

(***************************************************************************)
(* Part 3.  Filter::match_target_files over a file system.                 *)
(*                                                                         *)
(* An OsStr is [utf8, text]: text is its characters when it is UTF-8.  A   *)
(* path is the sequence of its components.  The file system is the tree    *)
(* <project_root>/app: fs.app_exists says whether the directory app is     *)
(* there, fs.app is what enumerating it yields, in order.                  *)
(***************************************************************************)

\* Bound of the number of entries of the directory app.
MaxDirEntries == 3

Utf8(text) == [utf8 |-> TRUE, text |-> text]

\* A name that is not valid UTF-8.
NonUtf8Name == [utf8 |-> FALSE, text |-> <<>>]

\* "app"
AppDir == Utf8(<<"a", "p", "p">>)

\* An entry the iterator of read_dir yields: Ok(DirEntry) or Err.
FileEntry(name) == [kind |-> "Ok", name |-> name, is_dir |-> FALSE, children |-> <<>>]

DirectoryEntry(name, children) ==
    [kind |-> "Ok", name |-> name, is_dir |-> TRUE, children |-> children]

EntryError == [kind |-> "Err", name |-> NonUtf8Name, is_dir |-> FALSE, children |-> <<>>]

\* What the directory app may hold: foo_en.ts, foo_zh_CN.ts, readme.md, a
\* file whose name is not UTF-8, an entry that fails to be read, and the
\* directory foo_fr.ts holding the file foo_de.ts.
EntryPool ==
    { FileEntry(Utf8(<<"f", "o", "o", "_", "e", "n", ".", "t", "s">>)),
      FileEntry(Utf8(<<"f", "o", "o", "_", "z", "h", "_", "C", "N", ".", "t", "s">>)),
      FileEntry(Utf8(<<"r", "e", "a", "d", "m", "e", ".", "m", "d">>)),
      FileEntry(NonUtf8Name),
      EntryError,
      DirectoryEntry(Utf8(<<"f", "o", "o", "_", "f", "r", ".", "t", "s">>),
                     <<FileEntry(Utf8(<<"f", "o", "o", "_", "d", "e", ".", "t", "s">>))>>) }

\* The listings of app: no entry twice.
Listings ==
    {l \in SeqsUpTo(EntryPool, MaxDirEntries) :
        \A i, j \in DOMAIN l : l[i] = l[j] => i = j}

FileSystems ==
    [app_exists : {TRUE}, app : Listings] \cup [app_exists : {FALSE}, app : {<<>>}]

\* The project roots: the directory proj, and one whose name is not UTF-8.
ProjectRoots == {<<Utf8(<<"p", "r", "o", "j">>)>>, <<NonUtf8Name>>}

\* The target templates of the filters: app/foo_<lang>.ts, app/foo.ts,
\* app/<lang>_<lang>.ts, i18n/<lang>/app.ts, app/.., the empty string,
\* po/foo_<lang>.ts, <lang> and app/./foo_<lang>.ts.
TargetPatterns ==
    { <<"a", "p", "p", "/", "f", "o", "o", "_", "<", "l", "a", "n", "g", ">", ".", "t", "s">>,
      <<"a", "p", "p", "/", "f", "o", "o", ".", "t", "s">>,
      <<"a", "p", "p", "/", "<", "l", "a", "n", "g", ">", "_", "<", "l", "a", "n", "g", ">", ".", "t", "s">>,
      <<"i", "1", "8", "n", "/", "<", "l", "a", "n", "g", ">", "/", "a", "p", "p", ".", "t", "s">>,
      <<"a", "p", "p", "/", ".", ".">>,
      <<>>,
      <<"p", "o", "/", "f", "o", "o", "_", "<", "l", "a", "n", "g", ">", ".", "t", "s">>,
      <<"<", "l", "a", "n", "g", ">">>,
      <<"a", "p", "p", "/", ".", "/", "f", "o", "o", "_", "<", "l", "a", "n", "g", ">", ".", "t", "s">> }

\* The components of a relative path string, as Path::components gives them:
\* split at "/", without the empty ones and the "." ones.
Components(path_string) ==
    LET parts == split(path_string, <<"/">>)
        kept == {i \in DOMAIN parts : parts[i] # <<>> /\ parts[i] # <<".">>}
        \* the k-th kept index
        Nth[k \in 1..Cardinality(kept)] ==
            CHOOSE i \in kept : Cardinality({j \in kept : j <= i}) = k
    IN  [k \in 1..Cardinality(kept) |-> Utf8(parts[Nth[k]])]

\* PathBuf::join with a relative path.
join(base, path_string) == base \o Components(path_string)

ParentDirName == Utf8(<<".", ".">>)

\* Path::file_name: the last component, None when the path ends in "..".
file_name(path) ==
    IF path = <<>> \/ path[Len(path)] = ParentDirName THEN None
    ELSE Some(path[Len(path)])

\* Path::parent: the path without its last component.
parent(path) ==
    IF path = <<>> THEN None ELSE Some(SubSeq(path, 1, Len(path) - 1))

IoError(what) == [kind |-> "Err", error |-> [kind |-> "Io", what |-> what]]

\* std::io::Error::new(ErrorKind::Other, msg).
OtherError(msg) == [kind |-> "Err", error |-> [kind |-> "Other", what |-> msg]]

Ok(v) == [kind |-> "Ok", value |-> v]

\* Path::read_dir on the file system fs under project_root.
read_dir(fs, project_root, dir) ==
    IF dir = project_root
    THEN Ok(IF fs.app_exists THEN <<DirectoryEntry(AppDir, fs.app)>> ELSE <<>>)
    ELSE IF fs.app_exists /\ dir = project_root \o <<AppDir>>
    THEN Ok(fs.app)
    ELSE IF /\ fs.app_exists
            /\ \E e \in Range(fs.app) :
                  e.kind = "Ok" /\ e.is_dir /\ dir = project_root \o <<AppDir, e.name>>
    THEN Ok((CHOOSE e \in Range(fs.app) :
                e.kind = "Ok" /\ e.is_dir /\ dir = project_root \o <<AppDir, e.name>>).children)
    ELSE IoError("NotFound")

RECURSIVE matched_files_names_only(_, _, _)
\* Mutant: the pair holds the entry's file name, not its path.
matched_files_names_only(target_files, target_filter_pattern, target_parent) ==
    IF target_files = <<>> THEN Ok(<<>>)
    ELSE LET file == Head(target_files)
             rest == matched_files_names_only(Tail(target_files), target_filter_pattern,
                                              target_parent)
         IN  IF file.kind = "Err" THEN IoError("EntryError")
             ELSE IF rest.kind = "Err" THEN rest
             ELSE IF ~file.name.utf8 THEN rest
             ELSE LET lang_code == captures_get_1(target_filter_pattern, file.name.text)
                  IN  IF lang_code.kind = "None" THEN rest
                      ELSE Ok(<<[lang |-> lang_code.value, path |-> <<file.name>>]>>
                              \o rest.value)

RECURSIVE matched_files_strict(_, _, _)
\* Mutant: a name that is not UTF-8 ends the scan with an error.
matched_files_strict(target_files, target_filter_pattern, target_parent) ==
    IF target_files = <<>> THEN Ok(<<>>)
    ELSE LET file == Head(target_files)
             rest == matched_files_strict(Tail(target_files), target_filter_pattern,
                                          target_parent)
         IN  IF file.kind = "Err" THEN IoError("EntryError")
             ELSE IF ~file.name.utf8 THEN OtherError("File name not valid")
             ELSE IF rest.kind = "Err" THEN rest
             ELSE LET lang_code == captures_get_1(target_filter_pattern, file.name.text)
                  IN  IF lang_code.kind = "None" THEN rest
                      ELSE Ok(<<[lang |-> lang_code.value,
                                 path |-> target_parent \o <<file.name>>]>>
                              \o rest.value)

RECURSIVE matched_files(_, _, _)
\* The loop over the entries of the directory: the first entry that fails to
\* be read ends the scan with its error (file?), a name that is not UTF-8 is
\* passed over (continue), and a name the pattern matches adds the pair of
\* group 1 and the entry's path; the entries are not descended into.
matched_files(target_files, target_filter_pattern, target_parent) ==
    IF target_files = <<>> THEN Ok(<<>>)
    ELSE LET file == Head(target_files)
             rest == matched_files(Tail(target_files), target_filter_pattern,
                                   target_parent)
         IN  IF file.kind = "Err" THEN IoError("EntryError")
             ELSE IF rest.kind = "Err" THEN rest
             ELSE IF ~file.name.utf8 THEN rest
             ELSE LET lang_code == captures_get_1(target_filter_pattern, file.name.text)
                  IN  IF lang_code.kind = "None" THEN rest
                      ELSE Ok(<<[lang |-> lang_code.value,
                                 path |-> target_parent \o <<file.name>>]>>
                              \o rest.value)

\* Mutant: the directory is listed before the template is looked at.
match_target_files_listing_first(self, project_root, fs) ==
    LET target_pattern_path == join(project_root, self.target_pattern)
        target_parent == parent(target_pattern_path)
        target_files ==
            IF target_parent.kind = "None" THEN IoError("NotFound")
            ELSE read_dir(fs, project_root, target_parent.value)
        target_filename_pattern == file_name(target_pattern_path)
        target_filter_pattern ==
            IF target_filename_pattern.kind = "Some" /\ target_filename_pattern.value.utf8
            THEN create_filter_pattern(target_filename_pattern.value.text)
            ELSE None
        listed == IF target_parent.kind = "None" THEN <<>> ELSE <<target_parent.value>>
    IN  IF target_files.kind = "Err"
        THEN [result |-> target_files, listed |-> listed]
        ELSE IF target_filter_pattern.kind = "None"
        THEN [result |-> OtherError("Filter pattern not valid"), listed |-> listed]
        ELSE [result |-> matched_files(target_files.value, target_filter_pattern.value,
                                       target_parent.value),
              listed |-> listed]

\* Filter::match_target_files: its result, and the directories it has listed.
match_target_files(self, project_root, fs) ==
    LET target_pattern_path == join(project_root, self.target_pattern)
        target_filename_pattern == file_name(target_pattern_path)
    IN  IF target_filename_pattern.kind = "None"
        THEN [result |-> OtherError("File name not found"), listed |-> <<>>]
        ELSE IF ~target_filename_pattern.value.utf8
        THEN [result |-> OtherError("File name not valid"), listed |-> <<>>]
        ELSE
        LET target_filter_pattern ==
                create_filter_pattern(target_filename_pattern.value.text)
            target_parent == parent(target_pattern_path)
        IN  IF target_filter_pattern.kind = "None"
            THEN [result |-> OtherError("Filter pattern not valid"), listed |-> <<>>]
            ELSE IF target_parent.kind = "None"
            THEN [result |-> OtherError("Parent dir not found"), listed |-> <<>>]
            ELSE
            LET target_files == read_dir(fs, project_root, target_parent.value)
            IN  IF target_files.kind = "Err"
                THEN [result |-> target_files, listed |-> <<target_parent.value>>]
                ELSE [result |-> matched_files(target_files.value,
                                               target_filter_pattern.value,
                                               target_parent.value),
                      listed |-> <<target_parent.value>>]

\* The arguments of one call of match_target_files, and the file system.
DiscoverArgs ==
    [self : [target_pattern : TargetPatterns], project_root : ProjectRoots,
     fs : FileSystems]

InitDiscover == pc = "call" /\ args \in DiscoverArgs /\ ret = NoRet

MatchTargetFiles ==
    /\ pc = "call"
    /\ pc' = "done"
    /\ ret' = match_target_files(args.self, args.project_root, args.fs)
    /\ UNCHANGED args

NextDiscover == MatchTargetFiles

SpecDiscover == InitDiscover /\ [][NextDiscover]_vars

(***************************************************************************)
(* Claims about match_target_files, checked under SpecDiscover.            *)
(***************************************************************************)

\* The path the call joins, its last component and the directory before it.
JoinedPath == args.project_root \o Components(args.self.target_pattern)

FinalName == JoinedPath[Len(JoinedPath)]

ParentPath == SubSeq(JoinedPath, 1, Len(JoinedPath) - 1)

\* The last component is a UTF-8 file name with the placeholder once in it.
FinalNameHasOnePlaceholder ==
    /\ FinalName # ParentDirName
    /\ FinalName.utf8
    /\ Occurrences(FinalName.text) = 1

\* What the file system holds at the parent directory.
ParentListing == read_dir(args.fs, args.project_root, ParentPath)

CodeChar(c) == IsLetter(c) \/ c = "_"

\* The name is the template with 2 to 6 code characters for the placeholder.
NameFits(template, name) ==
    /\ name.utf8
    /\ Len(name.text) - Len(template) + Len(LangToken) \in 2..6
    /\ SubSeq(name.text, 1, Len(PrefixOf(template))) = PrefixOf(template)
    /\ SubSeq(name.text, Len(name.text) - Len(SuffixOf(template)) + 1, Len(name.text))
          = SuffixOf(template)
    /\ \A i \in (Len(PrefixOf(template)) + 1)..(Len(name.text) - Len(SuffixOf(template))) :
          CodeChar(name.text[i])

\* The text of the name where the template has the placeholder.
CodeIn(template, name) ==
    SubSeq(name.text, Len(PrefixOf(template)) + 1, Len(name.text) - Len(SuffixOf(template)))

\* The entries of a listing that were read and whose name fits the template.
Fitting(listing, template) ==
    {i \in DOMAIN listing : listing[i].kind = "Ok" /\ NameFits(template, listing[i].name)}

\* pairs is, in the order of the listing, one pair per fitting entry: the
\* code in its name and its path under dir.
PairsOfFitting(pairs, listing, template, dir) ==
    /\ Len(pairs) = Cardinality(Fitting(listing, template))
    /\ \A k \in DOMAIN pairs :
          \E i \in Fitting(listing, template) :
              /\ Cardinality({j \in Fitting(listing, template) : j <= i}) = k
              /\ pairs[k] = [lang |-> CodeIn(template, listing[i].name),
                             path |-> dir \o <<listing[i].name>>]

\* C6: over a directory that is read without error, match_target_files
\* returns Ok with exactly one pair per entry whose name matches the pattern
\* of the file name, the pair being the text in place of the placeholder and
\* the path of the entry; other names add nothing, entries of
\* subdirectories add nothing, and no match at all gives Ok of no pairs.
C6_OnePairPerMatchingName ==
    (/\ pc = "done"
     /\ FinalNameHasOnePlaceholder
     /\ ParentListing.kind = "Ok"
     /\ \A i \in DOMAIN ParentListing.value : ParentListing.value[i].kind = "Ok")
    => /\ ret.result.kind = "Ok"
       /\ PairsOfFitting(ret.result.value, ParentListing.value, FinalName.text,
                         ParentPath)

\* app/foo_<lang>.ts over foo_en.ts, foo_zh_CN.ts and readme.md has given
\* (en, proj/app/foo_en.ts) and (zh_CN, proj/app/foo_zh_CN.ts).
C6_Witness ==
    /\ pc = "done"
    /\ args.self.target_pattern = <<"a", "p", "p", "/", "f", "o", "o", "_", "<", "l", "a", "n", "g", ">", ".", "t", "s">>
    /\ args.project_root = <<Utf8(<<"p", "r", "o", "j">>)>>
    /\ args.fs.app = <<FileEntry(Utf8(<<"f", "o", "o", "_", "e", "n", ".", "t", "s">>)),
                       FileEntry(Utf8(<<"f", "o", "o", "_", "z", "h", "_", "C", "N", ".", "t", "s">>)),
                       FileEntry(Utf8(<<"r", "e", "a", "d", "m", "e", ".", "m", "d">>))>>
    /\ ret.result =
          Ok(<<[lang |-> <<"e", "n">>,
                path |-> <<Utf8(<<"p", "r", "o", "j">>), AppDir, Utf8(<<"f", "o", "o", "_", "e", "n", ".", "t", "s">>)>>],
               [lang |-> <<"z", "h", "_", "C", "N">>,
                path |-> <<Utf8(<<"p", "r", "o", "j">>), AppDir, Utf8(<<"f", "o", "o", "_", "z", "h", "_", "C", "N", ".", "t", "s">>)>>]>>)

\* C7 as stated: when the directory is listed, the result is Ok and holds
\* the pair of every matching entry that was read, whatever entries have a
\* name that is not UTF-8 or failed to be read.
C7_AsStated ==
    (/\ pc = "done"
     /\ FinalNameHasOnePlaceholder
     /\ ParentListing.kind = "Ok")
    => /\ ret.result.kind = "Ok"
       /\ PairsOfFitting(ret.result.value, ParentListing.value, FinalName.text,
                         ParentPath)

\* C7 as the code has it: when the directory is listed and every entry is
\* read, an entry whose name is not UTF-8 is passed over and the result is
\* Ok with the pair of every matching entry, those after it included; an
\* entry that fails to be read ends the scan, and the result is that error.
C7_SkipsNonUtf8AbortsOnEntryError ==
    (/\ pc = "done"
     /\ FinalNameHasOnePlaceholder
     /\ ParentListing.kind = "Ok")
    => IF \E i \in DOMAIN ParentListing.value : ParentListing.value[i].kind = "Err"
       THEN ret.result = IoError("EntryError")
       ELSE /\ ret.result.kind = "Ok"
            /\ PairsOfFitting(ret.result.value, ParentListing.value, FinalName.text,
                              ParentPath)

\* A name that is not UTF-8 was enumerated before foo_en.ts, and the result
\* is Ok with the pair of foo_en.ts.
C7_Witness ==
    /\ pc = "done"
    /\ args.self.target_pattern = <<"a", "p", "p", "/", "f", "o", "o", "_", "<", "l", "a", "n", "g", ">", ".", "t", "s">>
    /\ Len(args.fs.app) = 2
    /\ args.fs.app[1] = FileEntry(NonUtf8Name)
    /\ args.fs.app[2] = FileEntry(Utf8(<<"f", "o", "o", "_", "e", "n", ".", "t", "s">>))
    /\ ret.result.kind = "Ok"
    /\ Len(ret.result.value) = 1
    /\ ret.result.value[1].lang = <<"e", "n">>

\* C10 as stated: when the last component of the target template does not
\* hold the placeholder exactly once, the result is the error "Filter
\* pattern not valid" and no directory was listed, parent directory or not;
\* when it does and the parent directory is missing, the result is the
\* error of the listing.
C10_AsStated ==
    (pc = "done" /\ Components(args.self.target_pattern) # <<>>)
    => /\ Occurrences(FinalName.text) # 1
            => /\ ret.result = OtherError("Filter pattern not valid")
               /\ ret.listed = <<>>
       /\ (Occurrences(FinalName.text) = 1 /\ ParentListing.kind = "Err")
            => /\ ret.result = IoError("NotFound")
               /\ ret.listed = <<ParentPath>>

\* C10 as the code has it: the last component of project_root joined with
\* the template is looked at before any directory is listed.  A path that
\* ends in ".." gives the error "File name not found", a last name that is
\* not UTF-8 "File name not valid", a last name without exactly one
\* placeholder "Filter pattern not valid": each without listing anything,
\* parent directory or not.  Otherwise the parent directory, and only it, is
\* listed, and when it is missing the result is the error of the listing.
C10_ValidatedBeforeListing ==
    pc = "done" =>
        IF FinalName = ParentDirName
        THEN ret = [result |-> OtherError("File name not found"), listed |-> <<>>]
        ELSE IF ~FinalName.utf8
        THEN ret = [result |-> OtherError("File name not valid"), listed |-> <<>>]
        ELSE IF Occurrences(FinalName.text) # 1
        THEN ret = [result |-> OtherError("Filter pattern not valid"), listed |-> <<>>]
        ELSE /\ ret.listed = <<ParentPath>>
             /\ ParentListing.kind = "Err" => ret.result = IoError("NotFound")
             /\ ParentListing.kind = "Ok" => ret.result # IoError("NotFound")

\* i18n/<lang>/app.ts, whose parent directory is missing and whose
\* placeholder is in a directory component, gave "Filter pattern not valid"
\* and nothing was listed.
C10_Witness ==
    /\ pc = "done"
    /\ args.self.target_pattern = <<"i", "1", "8", "n", "/", "<", "l", "a", "n", "g", ">", "/", "a", "p", "p", ".", "t", "s">>
    /\ ParentListing.kind = "Err"
    /\ ret.result = OtherError("Filter pattern not valid")
    /\ ret.listed = <<>>

(***************************************************************************)
(* Part 4.  try_laod_transifex_yaml_file and load_tx_yaml_file.            *)
(*                                                                         *)
(* The file system holds a node at <root>/transifex.yaml (fs.first) and    *)
(* one at <root>/.tx/transifex.yaml (fs.second): nothing, a directory, or  *)
(* a file.  A file can or cannot be read as a string; its content is a     *)
(* YAML mapping of which keys says the top-level keys it has.              *)
(***************************************************************************)

\* The documents of the files: two that hold both keys, one that holds a
\* third key besides, one without settings and one without filters.
DocumentPool ==
    { [keys |-> {"filters", "settings"}, filters |-> <<>>,
       settings |-> [branch_template |-> "tx_<br_unique_id>"]],
      [keys |-> {"filters", "settings"},
       filters |-> <<[type_attr |-> "file", source |-> "app/foo.ts", format |-> "QT",
                      source_lang |-> "en_US",
                      target_pattern |-> "app/foo_<lang>.ts"]>>,
       settings |-> [branch_template |-> "transifex_update_<br_unique_id>"]],
      [keys |-> {"filters", "settings", "comment"}, filters |-> <<>>,
       settings |-> [branch_template |-> "tx_<br_unique_id>"]],
      [keys |-> {"filters"}, filters |-> <<>>,
       settings |-> [branch_template |-> ""]],
      [keys |-> {"settings"}, filters |-> <<>>,
       settings |-> [branch_template |-> "tx_<br_unique_id>"]] }

NoDocument == [keys |-> {}, filters |-> <<>>, settings |-> [branch_template |-> ""]]

\* What a path of the file system holds.
Nodes ==
    [kind : {"absent", "dir"}, readable : {FALSE}, content : {NoDocument}]
    \cup [kind : {"file"}, readable : {FALSE}, content : {NoDocument}]
    \cup [kind : {"file"}, readable : {TRUE}, content : DocumentPool]

\* "transifex.yaml" and ".tx"
TransifexYamlName == Utf8(<<"t", "r", "a", "n", "s", "i", "f", "e", "x", ".", "y", "a", "m", "l">>)

TxDirName == Utf8(<<".", "t", "x">>)

\* The node at a path: nothing anywhere but at the two places.
NodeAt(fs, project_root, path) ==
    IF path = project_root \o <<TransifexYamlName>> THEN fs.first
    ELSE IF path = project_root \o <<TxDirName, TransifexYamlName>> THEN fs.second
    ELSE [kind |-> "absent", readable |-> FALSE, content |-> NoDocument]

\* Path::is_file.
is_file(fs, project_root, path) == NodeAt(fs, project_root, path).kind = "file"

\* fs::read_to_string.
read_to_string(fs, project_root, path) ==
    IF NodeAt(fs, project_root, path).readable
    THEN Ok(NodeAt(fs, project_root, path).content)
    ELSE IoError("Read")

\* serde_yml::from_str::<TransifexYaml>: both fields are required, a key
\* that is no field is passed over.
from_str(source_content) ==
    IF {"filters", "settings"} \subseteq source_content.keys
    THEN Ok([filters |-> source_content.filters, settings |-> source_content.settings])
    ELSE [kind |-> "Err", error |-> [kind |-> "Serde", what |-> "missing field"]]

\* TxYamlLoadError.
TxYamlLoadError(kind) == [kind |-> "Err", error |-> kind]

\* load_tx_yaml_file.
load_tx_yaml_file(fs, project_root, transifex_yaml_file) ==
    IF ~is_file(fs, project_root, transifex_yaml_file)
    THEN TxYamlLoadError("FileNotFound")
    ELSE LET source_content == read_to_string(fs, project_root, transifex_yaml_file)
         IN  IF source_content.kind = "Err" THEN TxYamlLoadError("ReadFile")
             ELSE LET parsed == from_str(source_content.value)
                  IN  IF parsed.kind = "Err" THEN TxYamlLoadError("Serde")
                      ELSE parsed

\* Ok((path, tx_yaml)), or the error of the load.
Loaded(path, tx_yaml) ==
    IF tx_yaml.kind = "Err" THEN tx_yaml
    ELSE Ok([path |-> path, tx_yaml |-> tx_yaml.value])

\* Mutant: a file at the first place that does not load is passed over for
\* the second place.
try_laod_falling_back(fs, project_root) ==
    LET first == project_root \o <<TransifexYamlName>>
        second == project_root \o <<TxDirName, TransifexYamlName>>
    IN  IF /\ is_file(fs, project_root, first)
           /\ load_tx_yaml_file(fs, project_root, first).kind = "Ok"
        THEN Loaded(first, load_tx_yaml_file(fs, project_root, first))
        ELSE IF is_file(fs, project_root, second)
        THEN Loaded(second, load_tx_yaml_file(fs, project_root, second))
        ELSE TxYamlLoadError("FileNotFound")

\* try_laod_transifex_yaml_file.
try_laod_transifex_yaml_file(fs, project_root) ==
    LET first == project_root \o <<TransifexYamlName>>
        second == project_root \o <<TxDirName, TransifexYamlName>>
    IN  IF is_file(fs, project_root, first)
        THEN Loaded(first, load_tx_yaml_file(fs, project_root, first))
        ELSE IF is_file(fs, project_root, second)
        THEN Loaded(second, load_tx_yaml_file(fs, project_root, second))
        ELSE TxYamlLoadError("FileNotFound")

LoadArgs == [project_root : ProjectRoots, fs : [first : Nodes, second : Nodes]]

InitLoad == pc = "call" /\ args \in LoadArgs /\ ret = NoRet

TryLoadTransifexYamlFile ==
    /\ pc = "call"
    /\ pc' = "done"
    /\ ret' = try_laod_transifex_yaml_file(args.fs, args.project_root)
    /\ UNCHANGED args

NextLoad == TryLoadTransifexYamlFile

SpecLoad == InitLoad /\ [][NextLoad]_vars

\* What loading the file of a node gives when the node is a file: the path
\* and the document's two fields, the error Serde when a field is missing,
\* the error ReadFile when the file cannot be read.
OutcomeOf(node, path) ==
    IF ~node.readable THEN [kind |-> "Err", error |-> "ReadFile"]
    ELSE IF "filters" \notin node.content.keys \/ "settings" \notin node.content.keys
    THEN [kind |-> "Err", error |-> "Serde"]
    ELSE [kind |-> "Ok",
          value |-> [path |-> path,
                     tx_yaml |-> [filters |-> node.content.filters,
                                  settings |-> node.content.settings]]]

\* C8: the file is looked for at <root>/transifex.yaml and, only when that
\* is no file, at <root>/.tx/transifex.yaml; the result holds the path that
\* was loaded; the error is FileNotFound exactly when neither is a file,
\* Serde when the file found is malformed and ReadFile when it cannot be
\* read, and a file at the first place that fails is not passed over for the
\* second.
C8_FirstThenSecondDistinctErrors ==
    pc = "done" =>
        /\ args.fs.first.kind = "file" =>
              ret = OutcomeOf(args.fs.first, args.project_root \o <<TransifexYamlName>>)
        /\ (args.fs.first.kind # "file" /\ args.fs.second.kind = "file") =>
              ret = OutcomeOf(args.fs.second,
                              args.project_root \o <<TxDirName, TransifexYamlName>>)
        /\ (ret = [kind |-> "Err", error |-> "FileNotFound"]
              <=> (args.fs.first.kind # "file" /\ args.fs.second.kind # "file"))

\* The file at the first place lacks a field, the one at the second place is
\* well formed, and the result is the error Serde.
C8_Witness ==
    /\ pc = "done"
    /\ args.fs.first.kind = "file"
    /\ args.fs.first.readable
    /\ args.fs.first.content.keys = {"filters"}
    /\ args.fs.second.kind = "file"
    /\ args.fs.second.readable
    /\ args.fs.second.content.keys = {"filters", "settings"}
    /\ ret = [kind |-> "Err", error |-> "Serde"]

====
